---- MODULE Spec2Model ----
(***************************************************************************)
(* Model of the presentation components of hll_rcon_tool:                  *)
(*   - LiveScore / LiveHeader (rcongui, Scoreboard/LiveScore.js): the      *)
(*     polling dashboard (getData, the setInterval effect, the pause link, *)
(*     nextMapString);                                                     *)
(*   - DataTable (rcongui_public, game/statistics/game-table.tsx): the     *)
(*     player table (player filter options, filters, sort, download,       *)
(*     focus highlight effect).                                            *)
(* The components are independent, so each has its own specification:      *)
(* SpecPoll, SpecHeader, SpecTable, SpecFocus.                             *)
(***************************************************************************)
EXTENDS Integers, Sequences, FiniteSets, TLC

VARIABLES
    \* ---- LiveScore (LiveScore.js:84-88) ----
    stats,              \* tick whose statistics response is on display, 0 = initial empty list
    statsMap,           \* the value of stats: map_ of that response, initially new iList()
    serverState,        \* tick whose public-info response is on display, 0 = initial empty map
    isLoading,
    isPaused,
    refreshIntervalSec,
    \* ---- LiveScore environment ----
    timers,             \* live setInterval timers, oldest first: [period, elapsed, by, fires]; fires = 1 once it fired
    pendingStats,       \* ticks whose get(endpoint) promise has not settled
    pendingInfo,        \* ticks whose get("get_public_info") promise has not settled
    issued,             \* number of getData calls so far
    \* ---- LiveScore history (observation only) ----
    sinceResume,        \* ms since isPaused last became false (mount counts), saturating
    sinceIntervalSet,   \* ms since refreshIntervalSec last changed value (mount counts), saturating
    pausedMidInterval,  \* the most recent pause cancelled a partly elapsed timer
    lastEvent,          \* name of the last step taken
    \* ---- LiveHeader (LiveScore.js:206-229) ----
    serverStateProp,    \* the serverState prop of LiveHeader, as a nested optional record
    nextMapString,      \* the memoised value
    \* ---- DataTable (game-table.tsx:44-115) ----
    data,               \* the data prop: sequence of player rows
    playerFilter,       \* useState<string[]>
    columnFilters,      \* [is_online, team, player]: filter value per column
    sorting,            \* SortingState
    downloaded,         \* rows last handed to download(); <<>> before any download
    focusedPlayerId,    \* context value: Null or a player id
    rowNodes,           \* DOM: the row nodes in the document, by row key (index in data)
    highlighted,        \* DOM: nodes carrying the highlight classes
    timeouts,           \* pending setTimeout callbacks, oldest first: [node, elapsed]
    removedAfterMs,     \* history: age of the setTimeout callback that ran last
    lastTableEvent      \* history: the last step taken, where a claim needs to know it

pollVars == <<stats, statsMap, serverState, isLoading, isPaused, refreshIntervalSec, timers,
              pendingStats, pendingInfo, issued, sinceResume,
              sinceIntervalSet, pausedMidInterval, lastEvent>>
headerVars == <<serverStateProp, nextMapString>>
tableVars == <<playerFilter, columnFilters, sorting, downloaded>>
focusVars == <<focusedPlayerId, rowNodes, highlighted, timeouts, removedAfterMs>>
vars == <<pollVars, headerVars, data, tableVars, focusVars, lastTableEvent>>

Null == "null"

Min(a, b) == IF a <= b THEN a ELSE b

(***************************************************************************)
(*                      LiveScore: the polling dashboard                   *)
(***************************************************************************)

\* Bound: getData is called at most MaxTicks times (mount included).
MaxTicks == 2

\* React.useState(10), and the default of map_.get("refresh_interval_sec", 10).
DefaultRefreshIntervalSec == 10

\* refresh_interval_sec values a statistics response may carry
ServerIntervals == {10, 30}

\* new iList()
EmptyList == [size |-> 0]

\* data.result of a statistics response: absent, or a map with or without the
\* refresh_interval_sec key
NoResult == [absent |-> TRUE]
StatsResults ==
    {NoResult, [snapshot_timestamp |-> 1]}
    \cup {[snapshot_timestamp |-> 1, refresh_interval_sec |-> v] : v \in ServerIntervals}

\* fromJS(data.result || new iList())
FromResult(result) == IF result = NoResult THEN EmptyList ELSE result

\* Immutable get(key, notSetValue)
Get(m, key, notSetValue) == IF key \in DOMAIN m THEN m[key] ELSE notSetValue

MsPerSec == 1000

\* Time advances in steps of one default interval; the longest period is 3 steps.
QuantumMs == DefaultRefreshIntervalSec * MsPerSec
CapMs == 4 * QuantumMs

Sat(ms) == Min(ms, CapMs)

\* setInterval(getData, refreshIntervalSec * 1000)
SetInterval(ts, sec, by) ==
    Append(ts, [period |-> sec * MsPerSec, elapsed |-> 0, by |-> by, fires |-> 0])

\* Mutant of ClearInterval: the effect returns no cleanup, the old timer stays live.
ClearIntervalLeak(ts) == ts

\* the effect's cleanup, () => clearInterval(interval): cancels the timer that the
\* previous run of the effect created (the newest one)
ClearInterval(ts) == IF ts = <<>> THEN ts ELSE SubSeq(ts, 1, Len(ts) - 1)

\* React.useEffect(() => { if (!isPaused) {...setInterval...; return cleanup} },
\*                 [isPaused, refreshIntervalSec])
\* run for a commit in which a dependency changed: cleanup of the previous run (it
\* registered one only when it was not paused), then the body with the new values.
IntervalEffect(ts, wasPaused, paused, sec, by) ==
    LET cleaned == IF wasPaused THEN ts ELSE ClearInterval(ts)
    IN  IF ~paused THEN SetInterval(cleaned, sec, by) ELSE cleaned

\* map_.get("refresh_interval_sec", 10)
GetRefreshInterval(map_) == Get(map_, "refresh_interval_sec", DefaultRefreshIntervalSec)

InitPoll ==
    \* after mount: useEffect(getData, []) and the interval effect have run once
    /\ stats = 0
    /\ statsMap = EmptyList
    /\ serverState = 0
    /\ isLoading = TRUE
    /\ isPaused = FALSE
    /\ refreshIntervalSec = DefaultRefreshIntervalSec
    /\ timers = SetInterval(<<>>, DefaultRefreshIntervalSec, "mount")
    /\ pendingStats = {1}
    /\ pendingInfo = {1}
    /\ issued = 1
    /\ sinceResume = 0
    /\ sinceIntervalSet = 0
    /\ pausedMidInterval = FALSE
    /\ lastEvent = "mount"

\* getData, called by the timer i: setIsLoading(true) and the two get() calls
TimerFire(i) ==
    /\ i \in 1..Len(timers)
    /\ timers[i].elapsed = timers[i].period
    /\ issued < MaxTicks
    /\ isLoading' = TRUE
    /\ issued' = issued + 1
    /\ pendingStats' = pendingStats \cup {issued + 1}
    /\ pendingInfo' = pendingInfo \cup {issued + 1}
    /\ timers' = [timers EXCEPT ![i].elapsed = 0, ![i].fires = Min(@ + 1, 1)]
    /\ lastEvent' = IF timers[i].fires = 0 THEN "timerFirst" ELSE "timerRepeat"
    /\ UNCHANGED <<stats, statsMap, serverState, isPaused, refreshIntervalSec, sinceResume,
                   sinceIntervalSet, pausedMidInterval>>

\* Mutant of StatsOk: refreshIntervalSec is missing from the effect's dependencies,
\* so the timer armed under the old value keeps running.
StatsOkStaleTimer(t, r) ==
    /\ t \in pendingStats
    /\ r \in StatsResults
    /\ pendingStats' = pendingStats \ {t}
    /\ stats' = t
    /\ statsMap' = FromResult(r)
    /\ refreshIntervalSec' = GetRefreshInterval(FromResult(r))
    /\ sinceIntervalSet' = IF refreshIntervalSec' # refreshIntervalSec
                           THEN 0 ELSE sinceIntervalSet
    /\ lastEvent' = "statsOk"
    /\ UNCHANGED <<serverState, isLoading, isPaused, pendingInfo, issued, sinceResume,
                   pausedMidInterval, timers>>

\* Mutant of StatsOk: the interval is set only when the response carries one
\* (if (map_.has("refresh_interval_sec")) setRefreshIntervalSec(...)), so a response
\* without it keeps the interval an earlier response had set.
StatsOkKeepsInterval(t, r) ==
    /\ t \in pendingStats
    /\ r \in StatsResults
    /\ pendingStats' = pendingStats \ {t}
    /\ stats' = t
    /\ statsMap' = FromResult(r)
    /\ refreshIntervalSec' = Get(FromResult(r), "refresh_interval_sec", refreshIntervalSec)
    /\ IF refreshIntervalSec' # refreshIntervalSec
       THEN /\ timers' = IntervalEffect(timers, isPaused, isPaused,
                                        refreshIntervalSec', "interval")
            /\ sinceIntervalSet' = 0
       ELSE UNCHANGED <<timers, sinceIntervalSet>>
    /\ lastEvent' = "statsOk"
    /\ UNCHANGED <<serverState, isLoading, isPaused, pendingInfo, issued, sinceResume,
                   pausedMidInterval>>

\* .then((data) => { setStats(map_); setRefreshIntervalSec(map_.get(..., 10)) })
\* followed by the interval effect when refreshIntervalSec changed value
StatsOk(t, r) ==
    /\ t \in pendingStats
    /\ r \in StatsResults
    /\ pendingStats' = pendingStats \ {t}
    /\ stats' = t
    /\ statsMap' = FromResult(r)
    /\ refreshIntervalSec' = GetRefreshInterval(FromResult(r))
    /\ IF refreshIntervalSec' # refreshIntervalSec
       THEN /\ timers' = IntervalEffect(timers, isPaused, isPaused,
                                        refreshIntervalSec', "interval")
            /\ sinceIntervalSet' = 0
       ELSE UNCHANGED <<timers, sinceIntervalSet>>
    /\ lastEvent' = "statsOk"
    /\ UNCHANGED <<serverState, isLoading, isPaused, pendingInfo, issued, sinceResume,
                   pausedMidInterval>>

\* the statistics promise rejects: .catch(handle_http_errors)
StatsFail(t) ==
    /\ t \in pendingStats
    /\ pendingStats' = pendingStats \ {t}
    /\ lastEvent' = "statsFail"
    /\ UNCHANGED <<stats, statsMap, serverState, isLoading, isPaused, refreshIntervalSec, timers,
                   pendingInfo, issued, sinceResume, sinceIntervalSet, pausedMidInterval>>

\* .then((data) => setServerState(fromJS(data.result))).then(() => setIsLoading(false))
InfoOk(t) ==
    /\ t \in pendingInfo
    /\ pendingInfo' = pendingInfo \ {t}
    /\ serverState' = t
    /\ isLoading' = FALSE
    /\ lastEvent' = "infoOk"
    /\ UNCHANGED <<stats, statsMap, isPaused, refreshIntervalSec, timers, pendingStats, issued,
                   sinceResume, sinceIntervalSet, pausedMidInterval>>

\* the public-info promise rejects: both .then callbacks are skipped,
\* .catch(handle_http_errors) runs
InfoFail(t) ==
    /\ t \in pendingInfo
    /\ pendingInfo' = pendingInfo \ {t}
    /\ lastEvent' = "infoFail"
    /\ UNCHANGED <<stats, statsMap, serverState, isLoading, isPaused, refreshIntervalSec, timers,
                   pendingStats, issued, sinceResume, sinceIntervalSet, pausedMidInterval>>

\* Mutant of TogglePause: isPaused is missing from the effect's dependencies, so the
\* running timer survives the pause and the resume.
TogglePauseNoEffect ==
    /\ isPaused' = ~isPaused
    /\ sinceResume' = IF isPaused THEN 0 ELSE sinceResume
    /\ lastEvent' = IF isPaused THEN "resume" ELSE "pause"
    /\ UNCHANGED <<stats, statsMap, serverState, isLoading, refreshIntervalSec, pendingStats,
                   pendingInfo, issued, sinceIntervalSet, timers, pausedMidInterval>>

\* <Link onClick={() => setPaused(!isPaused)}> followed by the interval effect
TogglePause ==
    /\ isPaused' = ~isPaused
    /\ timers' = IntervalEffect(timers, isPaused, isPaused', refreshIntervalSec, "resume")
    /\ sinceResume' = IF isPaused THEN 0 ELSE sinceResume
    /\ pausedMidInterval' =
          IF isPaused THEN pausedMidInterval
          ELSE \E i \in 1..Len(timers) :
                  0 < timers[i].elapsed /\ timers[i].elapsed < timers[i].period
    /\ lastEvent' = IF isPaused THEN "resume" ELSE "pause"
    /\ UNCHANGED <<stats, statsMap, serverState, isLoading, refreshIntervalSec, pendingStats,
                   pendingInfo, issued, sinceIntervalSet>>

\* QuantumMs of wall-clock time pass; a due timer callback runs before time moves on
Elapse ==
    /\ \A i \in 1..Len(timers) : timers[i].elapsed < timers[i].period
    /\ timers' = [i \in 1..Len(timers) |->
                    [timers[i] EXCEPT !.elapsed = @ + QuantumMs]]
    /\ sinceResume' = Sat(sinceResume + QuantumMs)
    /\ sinceIntervalSet' = Sat(sinceIntervalSet + QuantumMs)
    /\ lastEvent' = "elapse"
    /\ UNCHANGED <<stats, statsMap, serverState, isLoading, isPaused, refreshIntervalSec,
                   pendingStats, pendingInfo, issued, pausedMidInterval>>

PollOnly == UNCHANGED <<headerVars, data, tableVars, focusVars, lastTableEvent>>

NextPoll ==
    \/ \E i \in 1..Len(timers) : TimerFire(i) /\ PollOnly
    \/ \E t \in pendingStats, r \in StatsResults : StatsOk(t, r) /\ PollOnly
    \/ \E t \in pendingStats : StatsFail(t) /\ PollOnly
    \/ \E t \in pendingInfo : InfoOk(t) /\ PollOnly
    \/ \E t \in pendingInfo : InfoFail(t) /\ PollOnly
    \/ TogglePause /\ PollOnly
    \/ Elapse /\ PollOnly

NoFetchInFlight == pendingStats = {} /\ pendingInfo = {}
TimerJustFired == lastEvent \in {"timerFirst", "timerRepeat"}
IntervalMs == refreshIntervalSec * MsPerSec

\* C1 (as claimed): whenever isLoading is false, neither the statistics fetch nor the
\* public-info fetch of any tick is still in flight.
C1_LoadingClearsOnlyAfterBoth == ~isLoading => NoFetchInFlight

\* C2 (as claimed): once a tick of which a fetch was rejected has settled and nothing
\* is in flight, isLoading is false.
C2_FailedTickResetsLoading ==
    (lastEvent \in {"statsFail", "infoFail"} /\ NoFetchInFlight) => ~isLoading

\* C3: the timer issues no fetch while isPaused is true, and every timer-driven
\* fetch happens at least a full refreshIntervalSec after the most recent resume.
C3_PauseSuspendsResumeRestarts ==
    TimerJustFired => (~isPaused /\ sinceResume >= IntervalMs)

\* C3 witness: a pause cancelled a partly elapsed timer, and the first fetch after the
\* resume came exactly one full interval after the resume.
C3_Witness ==
    /\ lastEvent = "timerFirst"
    /\ pausedMidInterval
    /\ \E i \in 1..Len(timers) : timers[i].by = "resume"
    /\ sinceResume = IntervalMs

\* C4: at most one polling timer is live, none while paused, and every live timer
\* is armed with the current refreshIntervalSec and was started no earlier than the
\* last resume and the last change of refreshIntervalSec.
C4_OneCurrentTimer ==
    /\ Len(timers) <= 1
    /\ isPaused => timers = <<>>
    /\ \A i \in 1..Len(timers) :
          /\ timers[i].period = IntervalMs
          /\ timers[i].elapsed <= Min(sinceResume, sinceIntervalSet)

\* C4 witness: after an interval change and a pause/resume, the one live timer is
\* the one the resume armed, under the changed interval, and it has fired.
C4_Witness ==
    /\ refreshIntervalSec # DefaultRefreshIntervalSec
    /\ Len(timers) = 1
    /\ timers[1].by = "resume"
    /\ timers[1].fires = 1

\* C5: a timer-driven fetch never happens sooner than refreshIntervalSec after the
\* response that set that value, and the first firing of the timer which that
\* response armed happens exactly refreshIntervalSec after it.
C5_NewIntervalGovernsNextTick ==
    TimerJustFired =>
        /\ sinceIntervalSet >= IntervalMs
        /\ \A i \in 1..Len(timers) :
              (lastEvent = "timerFirst" /\ timers[i].by = "interval")
                  => sinceIntervalSet = IntervalMs

\* C5 witness: the interval went from 10 to 30 and the next tick fired 30 s later.
C5_Witness ==
    /\ lastEvent = "timerFirst"
    /\ refreshIntervalSec = 30
    /\ \E i \in 1..Len(timers) : timers[i].by = "interval"
    /\ sinceIntervalSet = 30 * MsPerSec

\* the state part of C11: refreshIntervalSec is the refresh_interval_sec of the
\* statistics response on display, and the default when that response has none
IntervalFollowsLastResponse ==
    IF "refresh_interval_sec" \in DOMAIN statsMap
    THEN refreshIntervalSec = statsMap.refresh_interval_sec
    ELSE refreshIntervalSec = DefaultRefreshIntervalSec

\* C11: refreshIntervalSec always equals the refresh_interval_sec of the most recently
\* applied statistics response, or the default 10 when that response carries none (or
\* has no result): an interval set by an earlier response is not kept. Whenever this
\* changes the value while not paused, the one live timer is a new one armed with it.
C11_MissingIntervalResetsToDefault ==
    /\ []IntervalFollowsLastResponse
    /\ [][(refreshIntervalSec' # refreshIntervalSec /\ ~isPaused')
            => timers' = SetInterval(<<>>, refreshIntervalSec', "interval")]_vars

\* C11 witness: an earlier response had set another interval, and the response just
\* applied (of tick 2) carries none: the interval is back at the default and the
\* timer has just been re-armed with it.
C11_Witness ==
    /\ lastEvent = "statsOk"
    /\ stats = 2
    /\ "refresh_interval_sec" \notin DOMAIN statsMap
    /\ refreshIntervalSec = DefaultRefreshIntervalSec
    /\ sinceIntervalSet = 0
    /\ timers = SetInterval(<<>>, DefaultRefreshIntervalSec, "interval")

\* C6 (as claimed): the snapshot on display is never replaced by the snapshot of an
\* earlier-issued tick.
C6_LateResponseNeverReplacesNewer ==
    [][stats' >= stats /\ serverState' >= serverState]_vars

(***************************************************************************)
(*                      LiveHeader: nextMapString                          *)
(***************************************************************************)

\* Bounds of the server-state snapshots handed to LiveHeader
MaxVotes == 2
MaxWinningMaps == 1

MapNames == {"Carentan", "St. Mere Eglise"}

\* sequences over S of length at most n
SeqsUpTo(S, n) == UNION {[1..k -> S] : k \in 0..n}

\* vote_status.winning_maps: ordered (map, votes) pairs
WinningMaps == SeqsUpTo(MapNames \X (0..MaxVotes), MaxWinningMaps)

VoteStatuses ==
    {[x \in {} |-> 0]}
    \cup {[winning_maps |-> w] : w \in WinningMaps}
    \cup {[total_votes |-> n] : n \in 0..MaxVotes}
    \cup {[winning_maps |-> w, total_votes |-> n] : w \in WinningMaps, n \in 0..MaxVotes}

NextMaps ==
    {[x \in {} |-> 0], [map |-> [x \in {} |-> 0]]}
    \cup {[map |-> [pretty_name |-> m]] : m \in MapNames \cup {""}}

\* new Map(), the initial serverState (LiveScore.js:85)
EmptyMap == [x \in {} |-> 0]

\* the snapshots: every key may be missing at every level
ServerStates ==
    {EmptyMap}
    \cup {[vote_status |-> v] : v \in VoteStatuses}
    \cup {[next_map |-> n] : n \in NextMaps}
    \cup {[vote_status |-> v, next_map |-> n] : v \in VoteStatuses, n \in NextMaps}

\* a?.get(key): <<>> stands for undefined, <<v>> for the value v
OptGet(opt, key) ==
    IF opt = <<>> THEN <<>>
    ELSE IF key \in DOMAIN opt[1] THEN <<opt[1][key]>> ELSE <<>>

\* list?.get(0)
OptFirst(opt) ==
    IF opt = <<>> THEN <<>>
    ELSE IF Len(opt[1]) >= 1 THEN <<opt[1][1]>> ELSE <<>>

\* `${v}` of a string or of undefined
NameToString(opt) == IF opt = <<>> THEN "undefined" ELSE opt[1]

\* `${v}` of a number or of undefined
NumberToString(opt) == IF opt = <<>> THEN "undefined" ELSE ToString(opt[1])

\* Mutant of NextMapString: the `|| ["", 0]` fallback is missing, so destructuring
\* undefined throws when there is no top-voted map.
NextMapStringNoFallback(ss) ==
    LET first == OptFirst(OptGet(OptGet(<<ss>>, "vote_status"), "winning_maps"))
        totalVotes == OptGet(OptGet(<<ss>>, "vote_status"), "total_votes")
        nextMap == OptGet(OptGet(OptGet(<<ss>>, "next_map"), "map"), "pretty_name")
    IN  IF first = <<>> THEN "TypeError"
        ELSE IF <<first[1][1]>> = nextMap
        THEN "Nextmap " \o NameToString(nextMap) \o " with " \o ToString(first[1][2])
             \o " out of " \o NumberToString(totalVotes) \o " votes"
        ELSE "Nextmap: " \o NameToString(nextMap)

\* React.useMemo(() => {...}, [serverState])
NextMapString(ss) ==
    LET first == OptFirst(OptGet(OptGet(<<ss>>, "vote_status"), "winning_maps"))
        pair == IF first = <<>> THEN <<"", 0>> ELSE first[1]
        map == pair[1]
        nbVotes == pair[2]
        totalVotes == OptGet(OptGet(<<ss>>, "vote_status"), "total_votes")
        nextMap == OptGet(OptGet(OptGet(<<ss>>, "next_map"), "map"), "pretty_name")
    IN  IF <<map>> = nextMap
        THEN "Nextmap " \o NameToString(nextMap) \o " with " \o ToString(nbVotes)
             \o " out of " \o NumberToString(totalVotes) \o " votes"
        ELSE "Nextmap: " \o NameToString(nextMap)

InitHeader ==
    /\ serverStateProp = EmptyMap
    /\ nextMapString = NextMapString(EmptyMap)

\* LiveHeader re-renders with a new serverState prop; useMemo recomputes
RenderHeader(ss) ==
    /\ ss # serverStateProp
    /\ serverStateProp' = ss
    /\ nextMapString' = NextMapString(ss)

NextHeader ==
    \E ss \in ServerStates : RenderHeader(ss) /\ UNCHANGED <<pollVars, data, tableVars, focusVars, lastTableEvent>>

HasTopMap ==
    /\ "vote_status" \in DOMAIN serverStateProp
    /\ "winning_maps" \in DOMAIN serverStateProp.vote_status
    /\ serverStateProp.vote_status.winning_maps # <<>>
TopMap == IF HasTopMap THEN serverStateProp.vote_status.winning_maps[1][1] ELSE ""
TopVotes == IF HasTopMap THEN serverStateProp.vote_status.winning_maps[1][2] ELSE 0
HasTotalVotes ==
    /\ "vote_status" \in DOMAIN serverStateProp
    /\ "total_votes" \in DOMAIN serverStateProp.vote_status
HasNextMap ==
    /\ "next_map" \in DOMAIN serverStateProp
    /\ "map" \in DOMAIN serverStateProp.next_map
    /\ "pretty_name" \in DOMAIN serverStateProp.next_map.map
TotalVotesText ==
    IF HasTotalVotes THEN ToString(serverStateProp.vote_status.total_votes)
    ELSE "undefined"
NextMapText ==
    IF HasNextMap THEN serverStateProp.next_map.map.pretty_name ELSE "undefined"

\* C10: the description is determined by the snapshot: with the top-voted map (or the
\* fallback "" with 0 votes when vote data is absent at any level) equal to the decided
\* next map it is 'Nextmap <next> with <votes> out of <total> votes', otherwise
\* 'Nextmap: <next>'; it is always a string (the computation never fails).
C10_NextMapString ==
    IF HasNextMap /\ TopMap = serverStateProp.next_map.map.pretty_name
    THEN nextMapString = "Nextmap " \o NextMapText \o " with " \o ToString(TopVotes)
                         \o " out of " \o TotalVotesText \o " votes"
    ELSE nextMapString = "Nextmap: " \o NextMapText

\* C10 witness: the top-voted map is the decided next map, with votes counted.
C10_Witness ==
    /\ HasTopMap /\ HasNextMap /\ HasTotalVotes
    /\ TopMap = "St. Mere Eglise"
    /\ nextMapString = "Nextmap St. Mere Eglise with 1 out of 2 votes"

(***************************************************************************)
(*                      DataTable: the player table                        *)
(***************************************************************************)

\* Bound: a dataset has at most MaxRows rows
MaxRows == 2

\* The player records datasets are made of. Two players share a display name;
\* player_id is unique.
PlayerRows ==
    { [player_id |-> "p1", player |-> "ann", team |-> "axis",   is_online |-> TRUE,  kills |-> 3],
      [player_id |-> "p2", player |-> "bob", team |-> "allies", is_online |-> FALSE, kills |-> 10],
      [player_id |-> "p3", player |-> "ann", team |-> "allies", is_online |-> TRUE,  kills |-> 1] }

PlayerIds == {r.player_id : r \in PlayerRows}

Range(f) == {f[i] : i \in DOMAIN f}

\* the data prop: player_id identifies a row within one dataset
Datasets ==
    {d \in SeqsUpTo(PlayerRows, MaxRows) :
        \A i, j \in DOMAIN d : i # j => d[i].player_id # d[j].player_id}

\* Array.prototype.filter
RECURSIVE SelectSeqBy(_, _)
SelectSeqBy(seq, keep) ==
    IF seq = <<>> THEN <<>>
    ELSE IF Head(seq) \in keep
         THEN <<Head(seq)>> \o SelectSeqBy(Tail(seq), keep)
         ELSE SelectSeqBy(Tail(seq), keep)

\* data.some(player => player.player === name)
DataHasName(d, name) == \E i \in DOMAIN d : d[i].player = name

\* name => ({value: name, label: name})
Option(name) == [value |-> name, label |-> name]

\* Mutant of PlayerFilterOptions: the selected names are not added to the options.
PlayerFilterOptionsDataOnly(d, pf) == [i \in DOMAIN d |-> Option(d[i].player)]

\* const playerFilterOptions = data.map(...).concat(playerFilter.filter(...).map(...))
PlayerFilterOptions(d, pf) ==
    [i \in DOMAIN d |-> Option(d[i].player)]
    \o LET missing == SelectSeqBy(pf, {n \in Range(pf) : ~DataHasName(d, n)})
       IN  [i \in DOMAIN missing |-> Option(missing[i])]

\* teamOptions, and the values of the two Select controls
TeamOptions == <<"axis", "allies", "mixed", "unknown">>
TeamFilterValues == {"all"} \cup Range(TeamOptions)
OnlineFilterValues == {"all", "online", "offline"}

\* useState<SortingState>([{id: 'kills', desc: true}])
InitialSorting == <<[id |-> "kills", desc |-> TRUE]>>

\* table.getColumn(id)?.setFilterValue(value)
SetFilterValue(cf, id, value) ==
    [c \in DOMAIN cf \cup {id} |-> IF c = id THEN value ELSE cf[c]]

\* the column filter functions: 'all' and an empty name list let every row pass
PassesFilters(row, cf) ==
    /\ "is_online" \in DOMAIN cf =>
          \/ cf.is_online = "all"
          \/ cf.is_online = "online" /\ row.is_online
          \/ cf.is_online = "offline" /\ ~row.is_online
    /\ "team" \in DOMAIN cf => (cf.team = "all" \/ cf.team = row.team)
    /\ "player" \in DOMAIN cf => (cf.player = <<>> \/ row.player \in Range(cf.player))

\* getFilteredRowModel(): the rows that pass, in data order
FilteredRows(d, cf) == SelectSeqBy(d, {r \in Range(d) : PassesFilters(r, cf)})

\* insertion of row r into a sequence sorted by the first sort entry (stable)
RECURSIVE InsertSorted(_, _, _)
InsertSorted(r, sorted, desc) ==
    IF sorted = <<>> THEN <<r>>
    ELSE IF (desc /\ r.kills > Head(sorted).kills) \/ (~desc /\ r.kills < Head(sorted).kills)
         THEN <<r>> \o sorted
         ELSE <<Head(sorted)>> \o InsertSorted(r, Tail(sorted), desc)

RECURSIVE SortByKills(_, _)
SortByKills(rows, desc) ==
    IF rows = <<>> THEN <<>>
    ELSE InsertSorted(rows[Len(rows)], SortByKills(SubSeq(rows, 1, Len(rows) - 1), desc), desc)

\* getSortedRowModel(): an empty sorting state keeps the filtered order
SortedRows(rows, sort) ==
    IF sort = <<>> THEN rows ELSE SortByKills(rows, sort[1].desc)

\* table.getRowModel().rows, the rows the table body renders
DisplayedRows == SortedRows(FilteredRows(data, columnFilters), sorting)

InitTable ==
    \* after mount: the [playerFilter] effect has stored [] as the player filter value
    /\ playerFilter = <<>>
    /\ columnFilters = [player |-> <<>>]
    /\ sorting = InitialSorting
    /\ downloaded = <<>>

\* values the SelectBox may hand to onChange: an array of distinct option values, or
\* (single-select shape) one bare value
SelectBoxArrays ==
    LET names == {o.value : o \in Range(PlayerFilterOptions(data, playerFilter))}
    IN  {v \in SeqsUpTo(names, Cardinality(names)) :
            \A i, j \in DOMAIN v : i # j => v[i] # v[j]}

\* onChange={(values) => Array.isArray(values) && setPlayerFilter(values)}
\* followed by the [playerFilter] effect: getColumn('player')?.setFilterValue(playerFilter)
ChangePlayerFilter(isArray, values) ==
    /\ IF isArray
       THEN /\ playerFilter' = values
            /\ columnFilters' = SetFilterValue(columnFilters, "player", values)
       ELSE UNCHANGED <<playerFilter, columnFilters>>
    /\ lastTableEvent' = "other"
    /\ UNCHANGED <<data, sorting, downloaded>>

\* <Select onValueChange={(value) => table.getColumn('is_online')?.setFilterValue(value)}>
SetOnlineFilter(value) ==
    /\ columnFilters' = SetFilterValue(columnFilters, "is_online", value)
    /\ columnFilters' # columnFilters
    /\ lastTableEvent' = "other"
    /\ UNCHANGED <<data, playerFilter, sorting, downloaded>>

\* <Select onValueChange={(value) => table.getColumn('team')?.setFilterValue(value)}>
SetTeamFilter(value) ==
    /\ columnFilters' = SetFilterValue(columnFilters, "team", value)
    /\ columnFilters' # columnFilters
    /\ lastTableEvent' = "other"
    /\ UNCHANGED <<data, playerFilter, sorting, downloaded>>

\* onSortingChange: setSorting, from a click on the kills header:
\* descending -> ascending -> unsorted -> descending
ToggleSorting ==
    /\ sorting' = IF sorting = <<>> THEN InitialSorting
                  ELSE IF sorting[1].desc THEN <<[id |-> "kills", desc |-> FALSE]>>
                  ELSE <<>>
    /\ lastTableEvent' = "other"
    /\ UNCHANGED <<data, playerFilter, columnFilters, downloaded>>

\* the parent re-renders DataTable with another data prop
SwapData(d) ==
    /\ d \in Datasets
    /\ d # data
    /\ data' = d
    /\ lastTableEvent' = "swapData"
    /\ UNCHANGED <<playerFilter, columnFilters, sorting, downloaded>>

\* onClick={() => download(data, `game-table-${tableId}`)}
Download ==
    /\ downloaded' = data
    /\ lastTableEvent' = "download"
    /\ UNCHANGED <<data, playerFilter, columnFilters, sorting>>

NextTable ==
    \/ \E v \in SelectBoxArrays : ChangePlayerFilter(TRUE, v) /\ UNCHANGED <<pollVars, headerVars, focusVars>>
    \/ \E n \in {r.player : r \in PlayerRows} :
          ChangePlayerFilter(FALSE, n) /\ UNCHANGED <<pollVars, headerVars, focusVars>>
    \/ \E v \in OnlineFilterValues : SetOnlineFilter(v) /\ UNCHANGED <<pollVars, headerVars, focusVars>>
    \/ \E v \in TeamFilterValues : SetTeamFilter(v) /\ UNCHANGED <<pollVars, headerVars, focusVars>>
    \/ ToggleSorting /\ UNCHANGED <<pollVars, headerVars, focusVars>>
    \/ \E d \in Datasets : SwapData(d) /\ UNCHANGED <<pollVars, headerVars, focusVars>>
    \/ Download /\ UNCHANGED <<pollVars, headerVars, focusVars>>

(***************************************************************************)
(*                DataTable: the focus-highlight effect                    *)
(***************************************************************************)

\* setTimeout(() => {...}, 2000)
HighlightMs == 2000

\* Bound: at most MaxTimeouts removal callbacks are pending when a focus is requested
MaxTimeouts == 2

\* Time advances in steps of half the highlight delay
FocusQuantumMs == HighlightMs \div 2

\* keys of the rows the table body renders: key={row.id}, the row's index in data
DisplayedKeys(d, cf) == {k \in DOMAIN d : PassesFilters(d[k], cf)}

\* A DOM row node is named by the key of the row it renders while it is in the
\* document, and by Detached once React has removed it (a removed node never comes
\* back: a key that reappears gets a new node).
Detached == 0

\* React reconciliation of the <TableRow key={row.id}> children: a key that stays
\* keeps its DOM node, a new key gets a new node, a key that goes loses its node.
Reconcile(d, cf) == DisplayedKeys(d, cf)

\* the commit after the data prop changed: the row nodes are reconciled; the classes
\* set on a node stay on it while it stays; a pending callback keeps its reference to
\* a node that left the document
RenderRows ==
    /\ rowNodes' = Reconcile(data', columnFilters')
    /\ highlighted' = highlighted \cap rowNodes'
    /\ timeouts' = [i \in DOMAIN timeouts |->
                      IF timeouts[i].node \in rowNodes' THEN timeouts[i]
                      ELSE [timeouts[i] EXCEPT !.node = Detached]]

\* document.getElementById('row-' + id): <<>> stands for null, <<node>> for the element
GetElementById(id) ==
    LET hits == {k \in rowNodes : data[k].player_id = id}
    IN  IF hits = {} THEN <<>> ELSE <<CHOOSE k \in hits : TRUE>>

InitFocus ==
    /\ focusedPlayerId = Null
    /\ rowNodes = Reconcile(data, columnFilters)
    /\ highlighted = {}
    /\ timeouts = <<>>
    /\ removedAfterMs = 0
    /\ lastTableEvent = "mount"

\* setFocusedPlayerId(id), called by another component through the context
RequestFocus(id) ==
    /\ id \in PlayerIds
    /\ Len(timeouts) < MaxTimeouts
    /\ focusedPlayerId' = id
    /\ lastTableEvent' = "other"
    /\ UNCHANGED <<data, tableVars, rowNodes, highlighted, timeouts, removedAfterMs>>

\* Mutant of FocusEffect: setFocusedPlayerId(null) is inside the `if (element)` block.
FocusEffectResetWhenFound ==
    /\ focusedPlayerId # Null
    /\ LET element == GetElementById(focusedPlayerId)
       IN  IF element # <<>>
           THEN /\ highlighted' = highlighted \cup {element[1]}
                /\ timeouts' = Append(timeouts, [node |-> element[1], elapsed |-> 0])
                /\ focusedPlayerId' = Null
                /\ lastTableEvent' = "focusHit"
           ELSE /\ UNCHANGED <<highlighted, timeouts, focusedPlayerId>>
                /\ lastTableEvent' = "focusMiss"
    /\ UNCHANGED <<data, tableVars, rowNodes, removedAfterMs>>

\* useEffect(() => {...}, [focusedPlayerId]) run with a non-null focusedPlayerId
\* (with null it returns at once)
FocusEffect ==
    /\ focusedPlayerId # Null
    /\ LET element == GetElementById(focusedPlayerId)
       IN  IF element # <<>>
           THEN /\ highlighted' = highlighted \cup {element[1]}
                /\ timeouts' = Append(timeouts, [node |-> element[1], elapsed |-> 0])
                /\ lastTableEvent' = "focusHit"
           ELSE /\ UNCHANGED <<highlighted, timeouts>>
                /\ lastTableEvent' = "focusMiss"
    /\ focusedPlayerId' = Null
    /\ UNCHANGED <<data, tableVars, rowNodes, removedAfterMs>>

\* the setTimeout callback: element.classList.remove(...style)
HighlightTimeout(i) ==
    /\ i \in DOMAIN timeouts
    /\ timeouts[i].elapsed = HighlightMs
    /\ highlighted' = highlighted \ {timeouts[i].node}
    /\ timeouts' = [j \in 1..(Len(timeouts) - 1) |->
                      IF j < i THEN timeouts[j] ELSE timeouts[j + 1]]
    /\ removedAfterMs' = timeouts[i].elapsed
    /\ lastTableEvent' = "timeout"
    /\ UNCHANGED <<data, tableVars, focusedPlayerId, rowNodes>>

\* FocusQuantumMs pass; a due callback runs before time moves on
ElapseMs ==
    /\ timeouts # <<>>
    /\ \A i \in DOMAIN timeouts : timeouts[i].elapsed < HighlightMs
    /\ timeouts' = [i \in DOMAIN timeouts |->
                      [timeouts[i] EXCEPT !.elapsed = @ + FocusQuantumMs]]
    /\ lastTableEvent' = "other"
    /\ UNCHANGED <<data, tableVars, focusedPlayerId, rowNodes, highlighted, removedAfterMs>>

NextFocus ==
    \/ \E id \in PlayerIds : RequestFocus(id) /\ UNCHANGED <<pollVars, headerVars>>
    \/ FocusEffect /\ UNCHANGED <<pollVars, headerVars>>
    \/ \E i \in DOMAIN timeouts : HighlightTimeout(i) /\ UNCHANGED <<pollVars, headerVars>>
    \/ ElapseMs /\ UNCHANGED <<pollVars, headerVars>>
    \/ \E d \in Datasets :
          /\ SwapData(d) /\ RenderRows
          /\ UNCHANGED <<pollVars, headerVars, focusedPlayerId, removedAfterMs>>

\* DataTable mounted with any dataset; the other components in their mount state
InitSpecFocus == InitPoll /\ InitHeader /\ InitTable /\ data \in Datasets /\ InitFocus

SpecFocus == InitSpecFocus /\ [][NextFocus]_vars

InitFocusIdle ==
    /\ focusedPlayerId = Null
    /\ rowNodes = {}
    /\ highlighted = {}
    /\ timeouts = <<>>
    /\ removedAfterMs = 0
    /\ lastTableEvent = "mount"

\* SpecTable leaves the DOM and the focus context out: filters, sort and download.
InitSpecTable == InitPoll /\ InitHeader /\ InitTable /\ InitFocusIdle /\ data \in Datasets

SpecTable == InitSpecTable /\ [][NextTable]_vars

\* LiveScore and LiveHeader in their mount state, the table empty
InitSpecPoll == InitPoll /\ InitHeader /\ InitTable /\ InitFocusIdle /\ data = <<>>

SpecPoll == InitSpecPoll /\ [][NextPoll]_vars

SpecHeader == InitSpecPoll /\ [][NextHeader]_vars

OptionValues == {o.value : o \in Range(PlayerFilterOptions(data, playerFilter))}

\* the state part of C7
StickyOptions ==
    /\ Range(playerFilter) \subseteq OptionValues
    /\ LET opts == PlayerFilterOptions(data, playerFilter)
       IN  /\ Len(opts) >= Len(data)
           /\ \A i \in 1..Len(data) : opts[i].value = data[i].player
           /\ {opts[i].value : i \in (Len(data) + 1)..Len(opts)}
                = {n \in Range(playerFilter) : ~DataHasName(data, n)}
    /\ columnFilters.player = playerFilter

\* C7: every selected name is among the options (and is the value of the control and
\* of the player column filter), also when no row of the current dataset has it; the
\* options are one per row of the dataset, in row order, followed by the selected
\* names that no row has; a dataset swap leaves playerFilter as it was.
C7_StickySelection ==
    /\ []StickyOptions
    /\ [][data' # data => playerFilter' = playerFilter]_vars

\* C7 witness: a name is selected and the dataset swapped in has no row with it.
C7_Witness ==
    /\ lastTableEvent = "swapData"
    /\ \E n \in Range(playerFilter) : ~DataHasName(data, n) /\ n \in OptionValues

\* C8 (as claimed): the rows handed to the download collaborator are the rows the
\* table displays, in the displayed order.
C8_DownloadsDisplayedRows ==
    lastTableEvent = "download" => downloaded = DisplayedRows

\* C9: the focus effect always leaves focusedPlayerId null, whether or not the row
\* exists; when the row exists its node is highlighted and a removal is scheduled;
\* every highlighted row has a removal pending, and a removal runs exactly
\* HighlightMs after its focus request, so with no removal pending no row is
\* highlighted.
C9_FocusOneShot ==
    /\ lastTableEvent \in {"focusHit", "focusMiss"} => focusedPlayerId = Null
    /\ lastTableEvent = "focusHit" =>
          /\ timeouts # <<>>
          /\ timeouts[Len(timeouts)].elapsed = 0
          /\ timeouts[Len(timeouts)].node \in highlighted \cap rowNodes
    /\ \A n \in highlighted : \E i \in DOMAIN timeouts : timeouts[i].node = n
    /\ \A i \in DOMAIN timeouts : timeouts[i].elapsed <= HighlightMs
    /\ lastTableEvent = "timeout" => removedAfterMs = HighlightMs
    /\ timeouts = <<>> => highlighted = {}

\* C9 witness: a row was highlighted, and the last pending removal has run 2000 ms
\* after its request, leaving no row highlighted and the focus value null.
C9_Witness ==
    /\ lastTableEvent = "timeout"
    /\ removedAfterMs = HighlightMs
    /\ timeouts = <<>>
    /\ highlighted = {}
    /\ focusedPlayerId = Null
    /\ rowNodes # {}

====
